---------------------------- MODULE Spec2Model ----------------------------
(***************************************************************************)
(* A model of patron, a randomized falsifier for transition systems:       *)
(*   src/src/constraints.rs  conjunction splitting and constraint clusters *)
(*   src/src/random.rs       the random search and the witness recorder    *)
(*   src/src/main.rs         the worker threads, the result slot, printing *)
(***************************************************************************)
EXTENDS Integers, Sequences, FiniteSets, TLC

VARIABLES
    split,      \* the locals of one call of split_conjunction
    an,         \* one call of analyze_constraints: its arguments and result
    job,        \* what main hands to every worker: ctx, sys, options
    workers,    \* per worker (or per run): the locals of random_testing
    result,     \* main's shared result slot (Arc<RwLock<Option<..>>>)
    main_pc,    \* the position of main's polling loop
    stdout      \* the lines written to standard output, in order

vars == <<split, an, job, workers, result, main_pc, stdout>>

----------------------------------------------------------------------------
(* Sequences of ExprRef: helpers for sort / dedup / contains.              *)

Range(s) == {s[i] : i \in 1..Len(s)}

Min(S) == CHOOSE x \in S : \A y \in S : x <= y

RECURSIVE SortedSeqOf(_)
\* sort_unstable() followed by dedup() on a vector of integers
SortedSeqOf(S) ==
    IF S = {} THEN <<>>
    ELSE LET m == Min(S) IN <<m>> \o SortedSeqOf(S \ {m})

SortDedup(s) == SortedSeqOf(Range(s))

Front(s) == SubSeq(s, 1, Len(s) - 1)

Last(s) == s[Len(s)]

----------------------------------------------------------------------------
(* The IR context: an interning table of expression nodes.  An ExprRef is  *)
(* an index into the table.  Children are interned before their parents.   *)

Sym(n, w)     == [op |-> "sym", a |-> n, b |-> 0, w |-> w]
ArraySym(n)   == [op |-> "arraysym", a |-> n, b |-> 0, w |-> 0]
Lit(v, w)     == [op |-> "lit", a |-> v, b |-> 0, w |-> w]
BVNot(e, w)   == [op |-> "not", a |-> e, b |-> 0, w |-> w]
BVAnd(a, b, w) == [op |-> "and", a |-> a, b |-> b, w |-> w]
BVOr(a, b, w)  == [op |-> "or", a |-> a, b |-> b, w |-> w]
BVEqual(a, b)  == [op |-> "eq", a |-> a, b |-> b, w |-> 1]

IsSymbol(n) == n.op \in {"sym", "arraysym"}

\* Context::add_node: hash-consing, an existing node keeps its index
CtxAdd(ctx, node) ==
    IF \E i \in 1..Len(ctx) : ctx[i] = node
    THEN [ctx |-> ctx, ref |-> CHOOSE i \in 1..Len(ctx) : ctx[i] = node]
    ELSE [ctx |-> Append(ctx, node), ref |-> Len(ctx) + 1]

\* Context::not
CtxNot(ctx, e) == CtxAdd(ctx, BVNot(e, ctx[e].w))

Pow2(n) == 2 ^ n

RECURSIVE BitAnd(_, _, _)
BitAnd(x, y, w) ==
    IF w = 0 THEN 0
    ELSE (IF x % 2 = 1 /\ y % 2 = 1 THEN 1 ELSE 0) + 2 * BitAnd(x \div 2, y \div 2, w - 1)

RECURSIVE BitOr(_, _, _)
BitOr(x, y, w) ==
    IF w = 0 THEN 0
    ELSE (IF x % 2 = 1 \/ y % 2 = 1 THEN 1 ELSE 0) + 2 * BitOr(x \div 2, y \div 2, w - 1)

\* the value of node e given the values of the nodes before it
NodeValue(ctx, data, e) ==
    LET n == ctx[e] IN
    CASE n.op = "lit" -> n.a
      [] n.op = "not" -> (Pow2(n.w) - 1) - data[n.a]
      [] n.op = "and" -> BitAnd(data[n.a], data[n.b], n.w)
      [] n.op = "or"  -> BitOr(data[n.a], data[n.b], n.w)
      [] n.op = "eq"  -> IF data[n.a] = data[n.b] THEN 1 ELSE 0
      [] OTHER -> data[e]

RECURSIVE EvalFrom(_, _, _)
\* recompute every non-symbol node, in index order, from the symbol slots
EvalFrom(ctx, data, e) ==
    IF e > Len(ctx) THEN data
    ELSE EvalFrom(ctx, [data EXCEPT ![e] = NodeValue(ctx, data, e)], e + 1)

----------------------------------------------------------------------------
(* split_conjunction (constraints.rs:169-189), one loop iteration at a     *)
(* time.  st = [ctx, todo, out].                                           *)

\* mutant: the operands pushed in source order, so that b is popped first
SplitAndArmInOrder(st, e) ==
    [st EXCEPT !.todo = Front(st.todo) \o <<st.ctx[e].a, st.ctx[e].b>>]

\* the BVAnd arm: push b, then a, so that a is popped first
SplitAndArm(st, e) ==
    [st EXCEPT !.todo = Front(st.todo) \o <<st.ctx[e].b, st.ctx[e].a>>]

\* mutant: the operands of the Or pushed without negating them
SplitNotOrArmNoNegation(st, e) ==
    LET inner == st.ctx[st.ctx[e].a]
    IN [st EXCEPT !.todo = Front(st.todo) \o <<inner.b, inner.a>>]

\* the BVNot(BVOr) arm: intern not(b), then not(a); push in that order
SplitNotOrArm(st, e) ==
    LET inner == st.ctx[st.ctx[e].a]
        nb == CtxNot(st.ctx, inner.b)
        na == CtxNot(nb.ctx, inner.a)
    IN [st EXCEPT !.ctx = na.ctx, !.todo = Front(st.todo) \o <<nb.ref, na.ref>>]

SplitEmitArm(st, e) ==
    [st EXCEPT !.todo = Front(st.todo), !.out = Append(st.out, e)]

\* the body of `while let Some(e) = todo.pop()`
SplitLoopBody(st) ==
    LET e == Last(st.todo)
        n == st.ctx[e]
    IN  IF n.op = "and" /\ n.w = 1 THEN SplitAndArm(st, e)
        ELSE IF n.op = "not" /\ n.w = 1 /\ st.ctx[n.a].op = "or" /\ st.ctx[n.a].w = 1
             THEN SplitNotOrArm(st, e)
        ELSE SplitEmitArm(st, e)

RECURSIVE SplitRun(_)
SplitRun(st) == IF st.todo = <<>> THEN st ELSE SplitRun(SplitLoopBody(st))

\* split_conjunction(ctx, e): the grown context and the list returned
split_conjunction(ctx, e) ==
    LET st == SplitRun([ctx |-> ctx, todo |-> <<e>>, out |-> <<>>])
    IN [ctx |-> st.ctx, out |-> st.out]

----------------------------------------------------------------------------
(* The transition system.  sys = [inputs, states, constraints, bad]:       *)
(* inputs is the list of input symbols, states a list of                   *)
(* [symbol, init, next] (0 for an absent init or next expression),         *)
(* constraints and bad lists of 1-bit expressions.                         *)

State(sym, init, next) == [symbol |-> sym, init |-> init, next |-> next]

\* sys.state_map(): the symbols that are states
state_map(sys) == {sys.states[i].symbol : i \in 1..Len(sys.states)}

StateOf(sys, sym) ==
    sys.states[CHOOSE i \in 1..Len(sys.states) : sys.states[i].symbol = sym]

RECURSIVE cone_of_influence_comb(_, _, _)
\* the input and state symbols e depends on combinationally
cone_of_influence_comb(ctx, sys, e) ==
    LET n == ctx[e] IN
    CASE IsSymbol(n) -> IF e \in state_map(sys) \/ e \in Range(sys.inputs) THEN {e} ELSE {}
      [] n.op = "lit" -> {}
      [] n.op = "not" -> cone_of_influence_comb(ctx, sys, n.a)
      [] OTHER -> cone_of_influence_comb(ctx, sys, n.a) \cup cone_of_influence_comb(ctx, sys, n.b)

RECURSIVE cone_of_influence_init(_, _, _)
\* as above, looking through the init expression of a state that has one
cone_of_influence_init(ctx, sys, e) ==
    LET n == ctx[e] IN
    CASE IsSymbol(n) ->
            IF e \in state_map(sys)
            THEN (IF StateOf(sys, e).init # 0
                  THEN cone_of_influence_init(ctx, sys, StateOf(sys, e).init)
                  ELSE {e})
            ELSE IF e \in Range(sys.inputs) THEN {e} ELSE {}
      [] n.op = "lit" -> {}
      [] n.op = "not" -> cone_of_influence_init(ctx, sys, n.a)
      [] OTHER -> cone_of_influence_init(ctx, sys, n.a) \cup cone_of_influence_init(ctx, sys, n.b)

----------------------------------------------------------------------------
(* extract_constraint_graph (constraints.rs:84-137).  The graph is         *)
(* [nodes, edges]: nodes the node weights (a symbol each) in insertion     *)
(* order, edges a list of [source, target, weight] with node indices.      *)

\* mutant: the states are not filtered out of the leaves in non-init mode
ConstraintLeavesKeepStates(ctx, sys, init, expr_ref) ==
    IF init
    THEN SortedSeqOf(cone_of_influence_init(ctx, sys, expr_ref))
    ELSE SortedSeqOf(cone_of_influence_comb(ctx, sys, expr_ref))

\* the leaves of one sub-constraint, sorted and deduplicated
ConstraintLeaves(ctx, sys, init, expr_ref) ==
    IF init
    THEN SortedSeqOf(cone_of_influence_init(ctx, sys, expr_ref))
    ELSE SortedSeqOf({e \in cone_of_influence_comb(ctx, sys, expr_ref) : e \notin state_map(sys)})

\* mutant: a node is added for a leaf even when the leaf already has one
AddNodeAlways(nodes, leaf) == Append(nodes, leaf)

\* `if !var_to_node.contains_key(leaf) { add_node; insert }`
AddNode(nodes, leaf) ==
    IF leaf \in Range(nodes) THEN nodes ELSE Append(nodes, leaf)

RECURSIVE AddLeafNodes(_, _)
AddLeafNodes(nodes, leaves) ==
    IF leaves = <<>> THEN nodes
    ELSE AddLeafNodes(AddNode(nodes, leaves[1]), Tail(leaves))

\* var_to_node[leaf]: the node inserted (last) for the leaf
var_to_node(nodes, leaf) ==
    CHOOSE i \in 1..Len(nodes) :
        nodes[i] = leaf /\ \A j \in 1..Len(nodes) : nodes[j] = leaf => j <= i

RECURSIVE ConstraintEdges(_, _, _)
\* `while let Some(leaf) = leaves.pop()`: an edge to every remaining leaf,
\* then the self edge
ConstraintEdges(nodes, leaves, expr_ref) ==
    IF leaves = <<>> THEN <<>>
    ELSE LET leaf == Last(leaves)
             rest == Front(leaves)
         IN [i \in 1..Len(rest) |->
                [source |-> var_to_node(nodes, leaf), target |-> var_to_node(nodes, rest[i]),
                 weight |-> expr_ref]]
            \o <<[source |-> var_to_node(nodes, leaf), target |-> var_to_node(nodes, leaf),
                  weight |-> expr_ref]>>
            \o ConstraintEdges(nodes, rest, expr_ref)

\* the body of `for expr_ref in sub_constraints`
AddSubConstraint(g, ctx, sys, init, expr_ref) ==
    LET leaves == ConstraintLeaves(ctx, sys, init, expr_ref)
        nodes == AddLeafNodes(g.nodes, leaves)
    IN [nodes |-> nodes, edges |-> g.edges \o ConstraintEdges(nodes, leaves, expr_ref)]

RECURSIVE AddSubConstraints(_, _, _, _, _)
AddSubConstraints(g, ctx, sys, init, subs) ==
    IF subs = <<>> THEN g
    ELSE AddSubConstraints(AddSubConstraint(g, ctx, sys, init, subs[1]), ctx, sys, init, Tail(subs))

RECURSIVE ExtractFrom(_, _, _, _)
\* `for (expr_ref, _) in sys.constraints()`, from constraint i on
ExtractFrom(acc, sys, init, i) ==
    IF i > Len(sys.constraints) THEN acc
    ELSE LET sp == split_conjunction(acc.ctx, sys.constraints[i])
             g == AddSubConstraints([nodes |-> acc.nodes, edges |-> acc.edges],
                                    sp.ctx, sys, init, sp.out)
         IN ExtractFrom([ctx |-> sp.ctx, nodes |-> g.nodes, edges |-> g.edges],
                        sys, init, i + 1)

\* extract_constraint_graph(ctx, sys, init): the graph and the grown context
extract_constraint_graph(ctx, sys, init) ==
    ExtractFrom([ctx |-> ctx, nodes |-> <<>>, edges |-> <<>>], sys, init, 1)

----------------------------------------------------------------------------
(* connected_components (constraints.rs:140-167) over petgraph's           *)
(* UnionFind: uf = [parent, rank].                                         *)

UnionFindNew(n) == [parent |-> [i \in 1..n |-> i], rank |-> [i \in 1..n |-> 0]]

RECURSIVE Find(_, _)
Find(parent, x) == IF parent[x] = x THEN x ELSE Find(parent, parent[x])

\* UnionFind::union: union by rank
Union(uf, x, y) ==
    LET xrep == Find(uf.parent, x)
        yrep == Find(uf.parent, y)
    IN  IF xrep = yrep THEN uf
        ELSE IF uf.rank[xrep] < uf.rank[yrep]
             THEN [uf EXCEPT !.parent[xrep] = yrep]
        ELSE IF uf.rank[xrep] > uf.rank[yrep]
             THEN [uf EXCEPT !.parent[yrep] = xrep]
        ELSE [uf EXCEPT !.parent[yrep] = xrep, !.rank[xrep] = uf.rank[xrep] + 1]

RECURSIVE UnionEdges(_, _)
\* `for edge in g.edge_references()`
UnionEdges(uf, edges) ==
    IF edges = <<>> THEN uf
    ELSE UnionEdges(Union(uf, edges[1].source, edges[1].target), Tail(edges))

\* vertex_sets.into_labeling()
Labeling(g) ==
    LET uf == UnionEdges(UnionFindNew(Len(g.nodes)), g.edges)
    IN [i \in 1..Len(g.nodes) |-> Find(uf.parent, i)]

Labels(g) == Range(Labeling(g))

\* the orders in which a HashMap keyed by the labels may iterate
HashOrders(g) ==
    LET L == Labels(g)
    IN {f \in [1..Cardinality(L) -> L] : \A i, j \in 1..Cardinality(L) : f[i] = f[j] => i = j}

\* clusters[label]: the node indices with that label, ascending
GroupOf(labeling, label) ==
    SortedSeqOf({i \in 1..Len(labeling) : labeling[i] = label})

\* lexicographic order on index lists (Ord of SmallVec<[usize; 2]>)
RECURSIVE LexLess(_, _)
LexLess(u, v) ==
    IF u = <<>> THEN v # <<>>
    ELSE IF v = <<>> THEN FALSE
    ELSE IF u[1] # v[1] THEN u[1] < v[1]
    ELSE LexLess(Tail(u), Tail(v))

RECURSIVE SortGroups(_)
\* out.sort_unstable(): the groups are pairwise different
SortGroups(gs) ==
    IF gs = <<>> THEN <<>>
    ELSE LET m == CHOOSE i \in 1..Len(gs) : \A j \in 1..Len(gs) : j # i => LexLess(gs[i], gs[j])
         IN <<gs[m]>> \o SortGroups([k \in 1..Len(gs) - 1 |-> IF k < m THEN gs[k] ELSE gs[k + 1]])

\* mutant: the groups are returned in the order the HashMap yields them
connected_components_unsorted(g, ord) ==
    [i \in 1..Len(ord) |-> GroupOf(Labeling(g), ord[i])]

\* connected_components(g); ord is the HashMap's iteration order
connected_components(g, ord) ==
    SortGroups([i \in 1..Len(ord) |-> GroupOf(Labeling(g), ord[i])])

----------------------------------------------------------------------------
(* analyze_constraints (constraints.rs:48-80)                              *)

\* graph.edges(node): the weights of the edges at the node
EdgeWeightsAt(g, node) ==
    {g.edges[i].weight : i \in {j \in 1..Len(g.edges) :
                                   g.edges[j].source = node \/ g.edges[j].target = node}}

\* ConstraintCluster::new: exprs, states and inputs sorted and deduplicated
ConstraintCluster(exprs, states, inputs) ==
    [exprs |-> SortedSeqOf(exprs), states |-> SortedSeqOf(states), inputs |-> SortedSeqOf(inputs)]

\* the body of `for group in groups`
ClusterOfGroup(g, sys, group) ==
    LET symbols == {g.nodes[group[i]] : i \in 1..Len(group)}
        exprs == UNION {EdgeWeightsAt(g, group[i]) : i \in 1..Len(group)}
    IN ConstraintCluster(exprs,
                         {sy \in symbols : sy \in state_map(sys)},
                         {sy \in symbols : sy \notin state_map(sys)})

\* analyze_constraints(ctx, sys, init): the clusters and the grown context
analyze_constraints(ctx, sys, init, ord) ==
    LET eg == extract_constraint_graph(ctx, sys, init)
        g == [nodes |-> eg.nodes, edges |-> eg.edges]
        groups == connected_components(g, ord)
    IN [ctx |-> eg.ctx, clusters |-> [i \in 1..Len(groups) |-> ClusterOfGroup(g, sys, groups[i])]]

\* the HashMap orders possible in analyze_constraints(ctx, sys, init)
AnalyzeHashOrders(ctx, sys, init) ==
    LET eg == extract_constraint_graph(ctx, sys, init)
    IN HashOrders([nodes |-> eg.nodes, edges |-> eg.edges])

----------------------------------------------------------------------------
(* The values of the variables a specification does not use.               *)

IdleSplit == [pc |-> "idle"]
IdleAn == [pc |-> "idle"]
IdleJob == [pc |-> "idle"]
IdleWorkers == <<>>
IdleResult == [some |-> FALSE, v |-> 0]

----------------------------------------------------------------------------
(* The simulator (patronus Interpreter) as random.rs uses it.  sim is the  *)
(* value of every expression of the context: the symbol slots are written  *)
(* by set and step, the others are recomputed by update.                   *)

WordBits == 64

\* the symbols and expressions the compiled system reaches: sim.get is Some
RECURSIVE Cone(_, _)
Cone(ctx, e) ==
    LET n == ctx[e] IN
    CASE IsSymbol(n) \/ n.op = "lit" -> {e}
      [] n.op = "not" -> {e} \cup Cone(ctx, n.a)
      [] OTHER -> {e} \cup Cone(ctx, n.a) \cup Cone(ctx, n.b)

SysRoots(sys) ==
    Range(sys.constraints) \cup Range(sys.bad)
      \cup {sys.states[i].symbol : i \in 1..Len(sys.states)}
      \cup {sys.states[i].next : i \in {j \in 1..Len(sys.states) : sys.states[j].next # 0}}
      \cup {sys.states[i].init : i \in {j \in 1..Len(sys.states) : sys.states[j].init # 0}}

\* sim.get(input) is Some for an input the system's expressions use
Exposed(ctx, sys, e) == e \in UNION {Cone(ctx, r) : r \in SysRoots(sys)}

\* Interpreter::new + sim.init(InitKind::Zero): inputs and free states are
\* zero, a state with an init expression takes the value of that expression
SimInit(ctx, sys) ==
    LET zero == EvalFrom(ctx, [i \in 1..Len(ctx) |-> 0], 1)
        inits == {i \in 1..Len(sys.states) : sys.states[i].init # 0}
    IN [e \in 1..Len(ctx) |->
          IF \E i \in inits : sys.states[i].symbol = e
          THEN zero[sys.states[CHOOSE i \in inits : sys.states[i].symbol = e].init]
          ELSE zero[e]]

\* sim.set(symbol, value)
SimSet(sim, symbol, value) == [sim EXCEPT ![symbol] = value]

\* sim.update()
SimUpdate(ctx, sim) == EvalFrom(ctx, sim, 1)

\* sim.step(): every state with a next expression takes its value
SimStep(sys, sim) ==
    [e \in 1..Len(sim) |->
        IF \E i \in 1..Len(sys.states) : sys.states[i].symbol = e /\ sys.states[i].next # 0
        THEN sim[StateOf(sys, e).next]
        ELSE sim[e]]

\* sim.take_snapshot(): the values of the states
SimSnapshot(sys, sim) == [i \in 1..Len(sys.states) |-> sim[sys.states[i].symbol]]

\* sim.restore_snapshot(start_state)
SimRestore(sys, sim, snap) ==
    [e \in 1..Len(sim) |->
        IF e \in state_map(sys)
        THEN snap[CHOOSE i \in 1..Len(sys.states) : sys.states[i].symbol = e]
        ELSE sim[e]]

\* value.words(): little-endian 64-bit words; model values fit the first
Words(v, width) ==
    [i \in 1..((width + WordBits - 1) \div WordBits) |-> IF i = 1 THEN v ELSE 0]

----------------------------------------------------------------------------
(* The random number generator: a deterministic generator with RngMod     *)
(* states whose draws are RngBits wide, standing for Xoshiro256PlusPlus    *)
(* and its 64-bit draws.                                                   *)

RngMod == 16

RngBits == 4

\* Xoshiro256PlusPlus::seed_from_u64
seed_from_u64(seed) == seed % RngMod

\* rng.next_u64(): the next state and the value drawn
next_u64(rng) ==
    LET n == (5 * rng + 3) % RngMod
    IN [rng |-> n, v |-> ((n \div 4) + 4 * (n % 4)) % Pow2(RngBits)]

\* mutant: the draw is written whole, the `& mask` is missing
Unmasked(v, width) == v

\* value & mask(width): for the word's own width the mask is all ones
Masked(v, width) == IF width >= RngBits THEN v ELSE v % Pow2(width)

\* rng.gen_bool(p), p in sixteenths: Bernoulli draws unless p is 1
gen_bool(rng, p) ==
    IF p >= Pow2(RngBits) THEN [rng |-> rng, v |-> TRUE]
    ELSE LET d == next_u64(rng) IN [rng |-> d.rng, v |-> d.v < p]

\* rng.gen_range(lo..hi)
gen_range(rng, lo, hi) ==
    LET d == next_u64(rng) IN [rng |-> d.rng, v |-> lo + (d.v % (hi - lo))]

\* mutant: the ranges are closed, `..=` for `..`, and reach one past the bound
sample_k_max_closed(rng, opts) ==
    LET pick_large_k == gen_bool(rng, opts.large_k_prob)
    IN IF pick_large_k.v
       THEN gen_range(pick_large_k.rng, opts.small_k, opts.large_k + 2)
       ELSE gen_range(pick_large_k.rng, 1, opts.small_k + 2)

\* sample_k_max (random.rs:200-207)
sample_k_max(rng, opts) ==
    LET pick_large_k == gen_bool(rng, opts.large_k_prob)
    IN IF pick_large_k.v
       THEN gen_range(pick_large_k.rng, opts.small_k, opts.large_k + 1)
       ELSE gen_range(pick_large_k.rng, 1, opts.small_k + 1)

----------------------------------------------------------------------------
(* Input sampling (random.rs:226-279).  st = [rng, sim, panic].            *)

\* randomize_symbol: todo!() panics for arrays and for widths over 64
randomize_symbol(ctx, st, symbol) ==
    IF st.panic THEN st
    ELSE IF ctx[symbol].op = "arraysym" THEN [st EXCEPT !.panic = TRUE]
    ELSE IF ctx[symbol].w <= 64
         THEN LET d == next_u64(st.rng)
              IN [st EXCEPT !.rng = d.rng,
                            !.sim = SimSet(st.sim, symbol, Masked(d.v, ctx[symbol].w))]
    ELSE [st EXCEPT !.panic = TRUE]

RECURSIVE RandomizeSymbols(_, _, _)
\* `for input in ...iter() { randomize_symbol(..) }`
RandomizeSymbols(ctx, st, symbols) ==
    IF symbols = <<>> THEN st
    ELSE RandomizeSymbols(ctx, randomize_symbol(ctx, st, symbols[1]), Tail(symbols))

\* sim.get(expr).unwrap().to_u64().unwrap() == 1 for all exprs
AllHold(sim, exprs) == \A i \in 1..Len(exprs) : sim[exprs[i]] = 1

\* mutant: the loop gives up after one attempt and keeps what it sampled
ClusterTryGivesUp(ctx, st, cluster) ==
    LET r == RandomizeSymbols(ctx, st, cluster.inputs)
    IN [rng |-> r.rng, sim |-> IF r.panic THEN r.sim ELSE SimUpdate(ctx, r.sim),
        panic |-> r.panic, ok |-> ~r.panic]

\* one iteration of the rejection loop of a cluster (random.rs:235-253)
ClusterTry(ctx, st, cluster) ==
    LET r == RandomizeSymbols(ctx, st, cluster.inputs)
        sim == SimUpdate(ctx, r.sim)
    IN IF r.panic THEN [rng |-> r.rng, sim |-> r.sim, panic |-> TRUE, ok |-> FALSE]
       ELSE [rng |-> r.rng, sim |-> sim, panic |-> FALSE, ok |-> AllHold(sim, cluster.exprs)]

\* mutant: the loop stops at the first bad state it finds
check_for_bad_states_first(bad_states, sim) ==
    LET idx == SortedSeqOf({i \in 1..Len(bad_states) : sim[bad_states[i]] = 1})
    IN IF idx = <<>> THEN <<>> ELSE <<idx[1] - 1>>

\* check_for_bad_states (random.rs:209-224): 0-based indices, ascending
check_for_bad_states(bad_states, sim) ==
    LET idx == SortedSeqOf({i \in 1..Len(bad_states) : sim[bad_states[i]] = 1})
    IN [j \in 1..Len(idx) |-> idx[j] - 1]

----------------------------------------------------------------------------
(* random_testing (random.rs:28-123) and record_witness (random.rs:128-198)*)
(* as a process.  workers[w] holds the locals of the call made by worker   *)
(* w; rw holds the locals of record_witness; drawn and rw.redrawn log the  *)
(* input values of each cycle of the episode and of its replay.            *)

None == [some |-> FALSE, v |-> 0]
Some(x) == [some |-> TRUE, v |-> x]

NoWitness == [input_data |-> <<>>, state_init |-> <<>>, k |-> 0, failed_safety |-> <<>>]
NoResult == [kind |-> "none", wit |-> NoWitness]
Unknown == [kind |-> "Unknown", wit |-> NoWitness]
Sat(wit) == [kind |-> "Sat", wit |-> wit]

NoRw == [rng |-> 0, k_bad |-> 0, bads |-> <<>>, state_init |-> <<>>, input_data |-> <<>>,
         k |-> 0, redrawn |-> <<>>]

\* the locals of random_testing(ctx, sys, opts, seed) at its entry
NewWorker(ctx, seed, opts) ==
    [pc |-> "start", seed |-> seed, opts |-> opts, ctx |-> ctx,
     constraints |-> <<>>, unconstrained_inputs |-> <<>>, bad_states |-> <<>>,
     sim |-> <<>>, start_state |-> <<>>, rng |-> 0, cycle_count |-> 0,
     k_max |-> 0, rng_start |-> 0, k |-> 0, ci |-> 0, drawn |-> <<>>,
     rw |-> NoRw, failed |-> "none", res |-> NoResult]

\* the search's cycle_count is followed up to this value
CycleCap == 5

\* the process runs until main calls process::exit or a panic aborts it
Running == main_pc \in {"idle", "poll"}

\* what a panic does is set by the build's panic strategy: the panicking
\* thread unwinds and ends (the default), or the process aborts
PanicStrategies == {"unwind", "abort"}

\* main's position after a step of a worker thread
MainAfter(panicked) == IF panicked /\ job.panic = "abort" THEN "aborted" ELSE main_pc

\* mutant: constrained_inputs is collected from the first cluster alone
UnconstrainedInputsFirstCluster(sys, constraints) ==
    LET constrained_inputs == IF constraints = <<>> THEN {} ELSE Range(constraints[1].inputs)
        keep == SortedSeqOf({i \in 1..Len(sys.inputs) : sys.inputs[i] \notin constrained_inputs})
    IN [j \in 1..Len(keep) |-> sys.inputs[keep[j]]]

\* mutant: the filter on constrained_inputs is missing
UnconstrainedInputsAll(sys, constraints) == sys.inputs

\* the inputs that are in no cluster, in system order (random.rs:40-50)
UnconstrainedInputs(sys, constraints) ==
    LET constrained_inputs == UNION {Range(constraints[i].inputs) : i \in 1..Len(constraints)}
        keep == SortedSeqOf({i \in 1..Len(sys.inputs) : sys.inputs[i] \notin constrained_inputs})
    IN [j \in 1..Len(keep) |-> sys.inputs[keep[j]]]

\* random.rs:37-73: the clusters, the simulator at its start state, the rng
WorkerSetup(w) ==
    /\ Running
    /\ workers[w].pc = "start"
    /\ \E ord \in AnalyzeHashOrders(workers[w].ctx, job.sys, FALSE) :
          LET wk == workers[w]
              r == analyze_constraints(wk.ctx, job.sys, FALSE, ord)
              sim == SimInit(r.ctx, job.sys)
          IN workers' = [workers EXCEPT ![w] =
                 [wk EXCEPT !.pc = "episode",
                            !.ctx = r.ctx,
                            !.constraints = r.clusters,
                            !.unconstrained_inputs = UnconstrainedInputs(job.sys, r.clusters),
                            !.bad_states = job.sys.bad,
                            !.sim = sim,
                            !.start_state = SimSnapshot(job.sys, sim),
                            !.rng = seed_from_u64(wk.seed),
                            !.cycle_count = 0]]
    /\ UNCHANGED <<split, an, job, result, main_pc, stdout>>

\* mutant: the replay generator is saved before k_max is drawn
EpisodeRngStartEarly(rng_before, rng_after) == rng_before

\* `let rng_start = rng.clone()` after sample_k_max (random.rs:75-81)
EpisodeRngStart(rng_before, rng_after) == rng_after

\* random.rs:75-83: a new episode
EpisodeStart(w) ==
    /\ Running
    /\ workers[w].pc = "episode"
    /\ LET wk == workers[w]
           km == sample_k_max(wk.rng, wk.opts)
       IN workers' = [workers EXCEPT ![w] =
              [wk EXCEPT !.pc = "inputs",
                         !.k_max = km.v,
                         !.rng = km.rng,
                         !.sim = SimRestore(job.sys, wk.sim, wk.start_state),
                         !.rng_start = EpisodeRngStart(wk.rng, km.rng),
                         !.k = 0, !.ci = 1, !.drawn = <<>>]]
    /\ UNCHANGED <<split, an, job, result, main_pc, stdout>>

\* randomize_inputs, one iteration of the rejection loop of cluster ci, in
\* the search (pc = "inputs") or in the replay (pc = "rw_inputs")
ClusterAttempt(w) ==
    /\ Running
    /\ workers[w].pc \in {"inputs", "rw_inputs"}
    /\ workers[w].ci <= Len(workers[w].constraints)
    /\ LET wk == workers[w]
           replay == wk.pc = "rw_inputs"
           rng == IF replay THEN wk.rw.rng ELSE wk.rng
           r == ClusterTry(wk.ctx, [rng |-> rng, sim |-> wk.sim, panic |-> FALSE],
                           wk.constraints[wk.ci])
       IN /\ workers' = [workers EXCEPT ![w] =
              [wk EXCEPT !.pc = IF r.panic THEN "panicked" ELSE wk.pc,
                         !.failed = IF r.panic THEN "todo" ELSE wk.failed,
                         !.rng = IF replay THEN wk.rng ELSE r.rng,
                         !.rw.rng = IF replay THEN r.rng ELSE wk.rw.rng,
                         !.sim = r.sim,
                         !.ci = IF r.ok THEN wk.ci + 1 ELSE wk.ci]]
          /\ main_pc' = MainAfter(r.panic)
    /\ UNCHANGED <<split, an, job, result, stdout>>

\* the values of the system's inputs in the simulator
InputValues(sys, sim) == [i \in 1..Len(sys.inputs) |-> sim[sys.inputs[i]]]

RECURSIVE Concat(_)
Concat(ss) == IF ss = <<>> THEN <<>> ELSE ss[1] \o Concat(Tail(ss))

\* random.rs:139-143: the words of every state's value
RecordStateInit(ctx, sys, sim) ==
    Concat([i \in 1..Len(sys.states) |->
               Words(sim[sys.states[i].symbol], ctx[sys.states[i].symbol].w)])

\* random.rs:257-259 and 92-120: the unconstrained inputs are sampled, the
\* bad states checked; then either record_witness is entered (139-143) or
\* the system steps and the cycle budget is checked
SearchCycle(w) ==
    /\ Running
    /\ workers[w].pc = "inputs"
    /\ workers[w].ci > Len(workers[w].constraints)
    /\ workers[w].cycle_count < CycleCap
    /\ LET wk == workers[w]
           r == RandomizeSymbols(wk.ctx, [rng |-> wk.rng, sim |-> wk.sim, panic |-> FALSE],
                                 wk.unconstrained_inputs)
           sim == SimUpdate(wk.ctx, r.sim)
           bads == check_for_bad_states(wk.bad_states, sim)
           drawn == Append(wk.drawn, InputValues(job.sys, sim))
           restored == SimRestore(job.sys, sim, wk.start_state)
           cycle_count == wk.cycle_count + 1
           budget == wk.opts.max_cycles.some /\ wk.opts.max_cycles.v <= cycle_count
       IN IF r.panic
          THEN /\ workers' = [workers EXCEPT ![w] =
                      [wk EXCEPT !.pc = "panicked", !.failed = "todo", !.rng = r.rng]]
               /\ main_pc' = MainAfter(TRUE)
               /\ UNCHANGED stdout
          ELSE IF bads # <<>>
          THEN /\ workers' = [workers EXCEPT ![w] =
                      [wk EXCEPT !.pc = "rw_inputs", !.rng = r.rng, !.sim = restored,
                                 !.drawn = drawn, !.ci = 1,
                                 !.rw = [rng |-> wk.rng_start, k_bad |-> wk.k, bads |-> bads,
                                         state_init |-> RecordStateInit(wk.ctx, job.sys, restored),
                                         input_data |-> <<>>, k |-> 0, redrawn |-> <<>>]]]
               /\ UNCHANGED <<main_pc, stdout>>
          ELSE /\ workers' = [workers EXCEPT ![w] =
                      [wk EXCEPT !.pc = IF budget THEN "returned"
                                        ELSE IF wk.k = wk.k_max THEN "episode" ELSE "inputs",
                                 !.res = IF budget THEN Unknown ELSE wk.res,
                                 !.rng = r.rng, !.sim = SimStep(job.sys, sim),
                                 !.drawn = drawn, !.cycle_count = cycle_count,
                                 !.k = IF wk.k = wk.k_max THEN wk.k ELSE wk.k + 1,
                                 !.ci = 1]]
               /\ stdout' = IF budget THEN Append(stdout, <<"Exciting after executing", cycle_count>>)
                            ELSE stdout
               /\ UNCHANGED main_pc
    /\ UNCHANGED <<split, an, job, result>>

\* mutant: an input the simulator does not expose is skipped whatever its width
RecordInputSkipMissing(ctx, sys, sim, expr) ==
    IF Exposed(ctx, sys, expr) THEN Words(sim[expr], ctx[expr].w) ELSE <<>>

\* random.rs:151-166: the words recorded for one input
RecordInput(ctx, sys, sim, expr) ==
    IF Exposed(ctx, sys, expr) THEN Words(sim[expr], ctx[expr].w)
    ELSE IF ctx[expr].w > WordBits THEN <<>>
    ELSE <<0>>

\* the inputs for which random.rs:157 prints a line
MissingWideInputs(ctx, sys) ==
    SortedSeqOf({i \in 1..Len(sys.inputs) :
                    ~Exposed(ctx, sys, sys.inputs[i]) /\ ctx[sys.inputs[i]].w > WordBits})

\* random.rs:148 (end) to 189: one cycle of the replay, and the return of the
\* witness after cycle k_bad
ReplayCycle(w) ==
    /\ Running
    /\ workers[w].pc = "rw_inputs"
    /\ workers[w].ci > Len(workers[w].constraints)
    /\ LET wk == workers[w]
           r == RandomizeSymbols(wk.ctx, [rng |-> wk.rw.rng, sim |-> wk.sim, panic |-> FALSE],
                                 wk.unconstrained_inputs)
           input_data == wk.rw.input_data \o
               Concat([i \in 1..Len(job.sys.inputs) |->
                          RecordInput(wk.ctx, job.sys, r.sim, job.sys.inputs[i])])
           missing == MissingWideInputs(wk.ctx, job.sys)
           sim == SimUpdate(wk.ctx, r.sim)
           is_ok == \A i \in 1..Len(wk.constraints) : AllHold(sim, wk.constraints[i].exprs)
           bads == check_for_bad_states(wk.bad_states, sim)
           last == wk.rw.k = wk.rw.k_bad
           failed == IF r.panic THEN "todo"
                     ELSE IF ~is_ok THEN "constraint assertion"
                     ELSE IF last /\ bads = <<>> THEN "bad assertion"
                     ELSE "none"
           rw == [wk.rw EXCEPT !.rng = r.rng, !.input_data = input_data,
                               !.redrawn = Append(wk.rw.redrawn, InputValues(job.sys, sim)),
                               !.k = IF last THEN wk.rw.k ELSE wk.rw.k + 1]
       IN /\ workers' = [workers EXCEPT ![w] =
                 IF r.panic THEN [wk EXCEPT !.pc = "panicked", !.failed = failed]
                 ELSE IF failed # "none"
                      THEN [wk EXCEPT !.pc = "panicked", !.failed = failed, !.rw = rw, !.sim = sim]
                 ELSE [wk EXCEPT !.pc = IF last THEN "returned" ELSE "rw_inputs",
                                 !.rw = rw, !.sim = SimStep(job.sys, sim), !.ci = 1,
                                 !.res = IF last
                                         THEN Sat([input_data |-> input_data,
                                                   state_init |-> wk.rw.state_init,
                                                   k |-> wk.rw.k_bad,
                                                   failed_safety |-> wk.rw.bads])
                                         ELSE wk.res]]
          /\ stdout' = IF r.panic THEN stdout
                       ELSE stdout \o [i \in 1..Len(missing) |->
                                          <<"TODO: deal with missing input", missing[i]>>]
          /\ main_pc' = MainAfter(failed # "none")
    /\ UNCHANGED <<split, an, job, result>>

----------------------------------------------------------------------------
(* The specification of split_conjunction alone: the caller interns up to  *)
(* MaxSplitNodes And / Or / Not nodes over three 1-bit symbols (a DAG:     *)
(* nodes may share children) and splits the node interned last.            *)

MaxSplitNodes == 2

SplitSymbols == <<Sym(1, 1), Sym(2, 1), Sym(3, 1)>>

NewNodes(c) ==
    ({BVNot(i, 1) : i \in 1..Len(c)}
       \cup {BVAnd(i, j, 1) : i \in 1..Len(c), j \in 1..Len(c)}
       \cup {BVOr(i, j, 1) : i \in 1..Len(c), j \in 1..Len(c)}) \ Range(c)


SplitInit ==
    /\ split = [pc |-> "build", e |-> 0, ctx |-> SplitSymbols, todo |-> <<>>, out |-> <<>>]
    /\ an = IdleAn
    /\ job = IdleJob
    /\ workers = IdleWorkers
    /\ result = IdleResult
    /\ main_pc = "idle"
    /\ stdout = <<>>

\* the caller interns one more And / Or / Not node (ctx.and, ctx.or, ctx.not)
SplitBuild ==
    /\ split.pc = "build"
    /\ Len(split.ctx) < Len(SplitSymbols) + MaxSplitNodes
    /\ \E nd \in NewNodes(split.ctx) : split' = [split EXCEPT !.ctx = Append(split.ctx, nd)]
    /\ UNCHANGED <<an, job, workers, result, main_pc, stdout>>

\* split_conjunction(ctx, e) is called on the node interned last
SplitCall ==
    /\ split.pc = "build"
    /\ split' = [split EXCEPT !.pc = "loop", !.e = Len(split.ctx),
                              !.todo = <<Len(split.ctx)>>, !.out = <<>>]
    /\ UNCHANGED <<an, job, workers, result, main_pc, stdout>>

SplitLocals(sp) == [ctx |-> sp.ctx, todo |-> sp.todo, out |-> sp.out]

\* one iteration of the worklist loop
SplitIterate ==
    /\ split.pc = "loop"
    /\ split.todo # <<>>
    /\ LET st == SplitLoopBody(SplitLocals(split))
       IN split' = [split EXCEPT !.ctx = st.ctx, !.todo = st.todo, !.out = st.out]
    /\ UNCHANGED <<an, job, workers, result, main_pc, stdout>>

\* todo.pop() gives None: the loop ends and out is returned
SplitReturn ==
    /\ split.pc = "loop"
    /\ split.todo = <<>>
    /\ split' = [split EXCEPT !.pc = "done"]
    /\ UNCHANGED <<an, job, workers, result, main_pc, stdout>>

SplitNext == SplitBuild \/ SplitCall \/ SplitIterate \/ SplitReturn

SplitSpec == SplitInit /\ [][SplitNext]_vars

\* the node values of a context under an assignment env of its symbols
Interpret(ctx, env) ==
    EvalFrom(ctx, [i \in 1..Len(ctx) |-> IF IsSymbol(ctx[i]) THEN env[ctx[i].a] ELSE 0], 1)

SplitEnvs == [1..Len(SplitSymbols) -> {0, 1}]

AllOne(data, refs) == \A i \in 1..Len(refs) : data[refs[i]] = 1

\* And-nodes and Or-nodes of the expression tree under e
RECURSIVE BinaryNodes(_, _)
BinaryNodes(ctx, e) ==
    LET n == ctx[e] IN
    CASE n.op \in {"and", "or"} -> 1 + BinaryNodes(ctx, n.a) + BinaryNodes(ctx, n.b)
      [] n.op = "not" -> BinaryNodes(ctx, n.a)
      [] OTHER -> 0

RECURSIVE SumBinaryNodes(_, _)
SumBinaryNodes(ctx, refs) ==
    IF refs = <<>> THEN 0
    ELSE BinaryNodes(ctx, refs[1]) + SumBinaryNodes(ctx, Tail(refs))

\* a natural number that every loop iteration makes smaller
SplitVariant(sp) == 2 * SumBinaryNodes(sp.ctx, sp.todo) + Len(sp.todo)

\* C9: the conjunction of the expressions split_conjunction returns is
\* equivalent to E under every assignment of the symbols (at every loop
\* iteration E is equivalent to the conjunction of out and todo), and the
\* worklist loop terminates: each iteration strictly decreases a natural
\* number.
C9_SplitSound ==
    /\ [](split.pc \in {"loop", "done"} =>
            \A env \in SplitEnvs :
                LET data == Interpret(split.ctx, env)
                IN (data[split.e] = 1) <=> (AllOne(data, split.out) /\ AllOne(data, split.todo)))
    /\ [][split.pc = "loop" /\ split'.pc = "loop" =>
            SplitVariant(split') < SplitVariant(split)]_vars

\* the call returned two conjuncts for a Not(Or(..)) expression
C9_Witness ==
    /\ split.pc = "done"
    /\ split.ctx[split.e].op = "not"
    /\ split.ctx[split.ctx[split.e].a].op = "or"
    /\ Len(split.out) = 2
    /\ Len(split.ctx) > split.e

\* an expression as a tree, sharing expanded
RECURSIVE Tree(_, _)
Tree(ctx, e) ==
    LET n == ctx[e] IN
    CASE n.op = "sym" -> <<"sym", n.a>>
      [] n.op = "not" -> <<"not", Tree(ctx, n.a)>>
      [] n.op = "and" -> <<"and", Tree(ctx, n.a), Tree(ctx, n.b)>>
      [] n.op = "or"  -> <<"or", Tree(ctx, n.a), Tree(ctx, n.b)>>
      [] OTHER -> <<n.op, n.a>>

Trees(ctx, refs) == [i \in 1..Len(refs) |-> Tree(ctx, refs[i])]

\* the atomic conjuncts of a tree, left to right
RECURSIVE Conjuncts(_)
Conjuncts(t) ==
    IF t[1] = "and" THEN Conjuncts(t[2]) \o Conjuncts(t[3])
    ELSE IF t[1] = "not" /\ t[2][1] = "or"
         THEN Conjuncts(<<"not", t[2][2]>>) \o Conjuncts(<<"not", t[2][3]>>)
    ELSE <<t>>

TA == <<"sym", 1>>
TB == <<"sym", 2>>
TC == <<"sym", 3>>

\* C10: split_conjunction returns the atomic conjuncts of E in left-to-right
\* order whatever the nesting of the And nodes: And(And(a,b),c) and
\* And(a,And(b,c)) give [a,b,c], Or(a,b) gives [Or(a,b)], Not(Or(a,b))
\* gives [Not(a), Not(b)].
C10_SplitOrder ==
    split.pc = "done" =>
        LET t == Tree(split.ctx, split.e)
            got == Trees(split.ctx, split.out)
        IN /\ got = Conjuncts(t)
           /\ t = <<"and", <<"and", TA, TB>>, TC>> => got = <<TA, TB, TC>>
           /\ t = <<"and", TA, <<"and", TB, TC>>>> => got = <<TA, TB, TC>>
           /\ t = <<"or", TA, TB>> => got = <<t>>
           /\ t = <<"not", <<"or", TA, TB>>>> => got = <<<<"not", TA>>, <<"not", TB>>>>

\* the call returned for And(a, And(b, c))
C10_Witness ==
    /\ split.pc = "done"
    /\ Tree(split.ctx, split.e) = <<"and", TA, <<"and", TB, TC>>>>
    /\ Len(split.out) = 3

----------------------------------------------------------------------------
(* The expressions the specifications below draw their systems from.       *)
(*   1 a   2 b   3 c : 1-bit symbols      4 s   5 t : 1-bit symbols        *)
(*   6 x : 2-bit symbol   7 wide : 65-bit symbol   8 mem : array symbol    *)
(*   9 = 1     10 = a & b      11 = a | b     12 = ~(a | b)   13 = b | c   *)
(*  14 = ~a    15 = a & ~a     16 = (s == c)  17 = ~s         18 = (a&b)&c *)
(*  19 = 3 (2 bits)  20 = (x == 3)  21 = s | a   22 = s & b   23 = ~t      *)
(*  24 = ~s & a      25 = s & c        26 = s & a      27 = ~c             *)
(*  28 y : 64-bit symbol    29 = 5 (64 bits)     30 = (y == 5)             *)
(*  31 _input_0 : 1-bit symbol and 32 _input_1 : 65-bit symbol, both with  *)
(*  a name the parser gives an input that has none     33 = _input_0 | a   *)

PoolCtx ==
    << Sym(1, 1), Sym(2, 1), Sym(3, 1), Sym(4, 1), Sym(5, 1), Sym(6, 2), Sym(7, 65),
       ArraySym(8), Lit(1, 1), BVAnd(1, 2, 1), BVOr(1, 2, 1), BVNot(11, 1), BVOr(2, 3, 1),
       BVNot(1, 1), BVAnd(1, 14, 1), BVEqual(4, 3), BVNot(4, 1), BVAnd(10, 3, 1),
       Lit(3, 2), BVEqual(6, 19), BVOr(4, 1, 1), BVAnd(4, 2, 1), BVNot(5, 1),
       BVAnd(17, 1, 1), BVAnd(4, 3, 1), BVAnd(4, 1, 1), BVNot(3, 1),
       Sym(28, 64), Lit(5, 64), BVEqual(28, 29),
       Sym(100, 1), Sym(101, 65), BVOr(31, 1, 1) >>

----------------------------------------------------------------------------
(* The specification of analyze_constraints alone: a system with inputs    *)
(* a, b, c, x and states s (free init) and t (init = ~a), whose            *)
(* constraints are any list of up to MaxConstraints pool expressions, in   *)
(* init and in non-init mode.                                              *)

MaxConstraints == 2

AnPool == {1, 4, 5, 9, 10, 12, 13, 16, 17, 18, 20}

AnSys(cs) ==
    [inputs |-> <<1, 2, 3, 6>>,
     states |-> <<State(4, 0, 21), State(5, 14, 0)>>,
     constraints |-> cs,
     bad |-> <<>>]

AnInit ==
    /\ \E n \in 0..MaxConstraints : \E cs \in [1..n -> AnPool] : \E init \in BOOLEAN :
          an = [pc |-> "call", ctx |-> PoolCtx, sys |-> AnSys(cs), init |-> init,
                clusters |-> <<>>]
    /\ split = IdleSplit
    /\ job = IdleJob
    /\ workers = IdleWorkers
    /\ result = IdleResult
    /\ main_pc = "idle"
    /\ stdout = <<>>

\* analyze_constraints(&mut ctx, &sys, init)
AnalyzeCall ==
    /\ an.pc = "call"
    /\ \E ord \in AnalyzeHashOrders(an.ctx, an.sys, an.init) :
          LET r == analyze_constraints(an.ctx, an.sys, an.init, ord)
          IN an' = [an EXCEPT !.pc = "done", !.ctx = r.ctx, !.clusters = r.clusters]
    /\ UNCHANGED <<split, job, workers, result, main_pc, stdout>>

AnNext == AnalyzeCall

AnSpec == AnInit /\ [][AnNext]_vars

\* the atomic sub-constraints: every system constraint, split
AtomicSubConstraints(ctx, sys) ==
    UNION {Range(split_conjunction(ctx, sys.constraints[i]).out) : i \in 1..Len(sys.constraints)}

ClustersWith(clusters, e) == {i \in 1..Len(clusters) : e \in Range(clusters[i].exprs)}

\* C6: every atomic sub-constraint obtained by splitting every system
\* constraint is in the exprs of exactly one cluster returned by
\* analyze_constraints, in init and in non-init mode, also when its support
\* holds no input symbol.
C6_ClusterCoverage ==
    an.pc = "done" =>
        \A e \in AtomicSubConstraints(an.ctx, an.sys) :
            Cardinality(ClustersWith(an.clusters, e)) = 1

\* C7: two distinct clusters of one call of analyze_constraints share no
\* input and no state, and no cluster has a symbol in both its states and
\* its inputs.
C7_ClusterDisjoint ==
    an.pc = "done" =>
        /\ \A i, j \in 1..Len(an.clusters) :
              i # j => /\ Range(an.clusters[i].inputs) \cap Range(an.clusters[j].inputs) = {}
                       /\ Range(an.clusters[i].states) \cap Range(an.clusters[j].states) = {}
        /\ \A i \in 1..Len(an.clusters) :
              Range(an.clusters[i].inputs) \cap Range(an.clusters[i].states) = {}

\* an init-mode call returned the clusters {a} and {b} (from a & b, split)
\* and {c, s} (from s == c): the last has a state and an input
C7_Witness ==
    /\ an.pc = "done"
    /\ an.init
    /\ Len(an.clusters) = 3
    /\ an.sys.constraints = <<10, 16>>
    /\ \E i \in 1..3 : an.clusters[i].states # <<>> /\ an.clusters[i].inputs # <<>>

----------------------------------------------------------------------------
(* The systems the search is run on, all over PoolCtx.                     *)
(*  1  input a, constraint a, bad ~a                 (bad unreachable)     *)
(*  2  inputs a b, constraint ~(a | b), bad a | b    (bad unreachable)     *)
(*  3  inputs a b, state s' = s | a, bad s & b                             *)
(*  4  inputs a b c, state s' = s | a, constraints b | c and s == c,       *)
(*     bad s & c                                                           *)
(*  5  inputs a b c, constraints a | b and c, bads (a & b) & c and a & b   *)
(*  6  input a, states t (init 1) and s (free, s' = s | a), bad ~s & a     *)
(*  7  inputs a and wide (65 bits), bad a                                  *)
(*  8  inputs mem (array) and a, constraint a, bad ~a                      *)
(*  9  input a, constraint a & ~a, bad a             (no input accepted)   *)
(* 10  inputs x (2 bits) and b (unused), bad x == 3                        *)
(* 11  input a, states s (free, s' = s | a) and t (init 1), bad s & a      *)
(* 12  inputs a c, state s' = s | a, constraints s == c and ~c, bad s & a  *)
(*     (no c is accepted once s is 1)                                      *)
(* 13  inputs a b c x, constraints a and b | c, bad x == 3                 *)
(* 14  inputs y (64 bits) and x (unused), bad y == 5                       *)

Sys(inputs, states, constraints, bad) ==
    [inputs |-> inputs, states |-> states, constraints |-> constraints, bad |-> bad]

Systems ==
    << Sys(<<1>>, <<>>, <<1>>, <<14>>),
       Sys(<<1, 2>>, <<>>, <<12>>, <<11>>),
       Sys(<<1, 2>>, <<State(4, 0, 21)>>, <<>>, <<22>>),
       Sys(<<1, 2, 3>>, <<State(4, 0, 21)>>, <<13, 16>>, <<25>>),
       Sys(<<1, 2, 3>>, <<>>, <<11, 3>>, <<18, 10>>),
       Sys(<<1>>, <<State(5, 9, 0), State(4, 0, 21)>>, <<>>, <<24>>),
       Sys(<<1, 7>>, <<>>, <<>>, <<1>>),
       Sys(<<8, 1>>, <<>>, <<1>>, <<14>>),
       Sys(<<1>>, <<>>, <<15>>, <<1>>),
       Sys(<<6, 2>>, <<>>, <<>>, <<20>>),
       Sys(<<1>>, <<State(4, 0, 21), State(5, 9, 0)>>, <<>>, <<26>>),
       Sys(<<1, 3>>, <<State(4, 0, 21)>>, <<16, 27>>, <<26>>),
       Sys(<<1, 2, 3, 6>>, <<>>, <<1, 13>>, <<20>>),
       Sys(<<28, 6>>, <<>>, <<>>, <<30>>) >>

\* the names that start with DEFAULT_INPUT_PREFIX
AnonymousNames == {100, 101}

\* mutant: no input counts as removed
is_removed_never(ctx, input) == FALSE

\* `name.starts_with(DEFAULT_INPUT_PREFIX)` (main.rs:182-183)
is_removed(ctx, input) == ctx[input].a \in AnonymousNames

\* replace_anonymous_inputs_with_zero (main.rs:49): the anonymous inputs are
\* no inputs of the system any more and read as zero; their symbols stay in
\* the expressions and are never written, so the simulator holds zero for
\* them
replace_anonymous_inputs_with_zero(ctx, sys) ==
    [sys EXCEPT !.inputs = SelectSeq(sys.inputs, LAMBDA e : ctx[e].a \notin AnonymousNames)]

(* Systems with anonymous inputs, as parsed.                               *)
(* 15  inputs _input_0 a b, state s' = s | a, bad s & b                    *)
(* 16  inputs x, _input_1 (65 bits) and b (unused), bad x == 3             *)
(* 17  inputs a and _input_0, bad _input_0 | a                             *)
AnonymousSystems ==
    << Sys(<<31, 1, 2>>, <<State(4, 0, 21)>>, <<>>, <<22>>),
       Sys(<<6, 32, 2>>, <<>>, <<>>, <<20>>),
       Sys(<<1, 31>>, <<>>, <<>>, <<33>>) >>

\* the systems main is run on
OrigSystems == Systems \o AnonymousSystems

----------------------------------------------------------------------------
(* RunSpec: random_testing called twice, one call after the other, with    *)
(* the same context, system, options and seed.                             *)

SmallK == 2

LargeK == 3

MaxCyclesArg == 3

\* Option<u64> values of max_cycles
MaxCyclesChoices == {None} \cup {Some(m) : m \in 0..MaxCyclesArg}

\* large_k_prob in sixteenths: 0, one half and 1
LargeKProbs == {0, Pow2(RngBits) \div 2, Pow2(RngBits)}

RandomOptions(small_k, large_k, large_k_prob, max_cycles) ==
    [small_k |-> small_k, large_k |-> large_k, large_k_prob |-> large_k_prob,
     max_cycles |-> max_cycles]

Runs == {1, 2}

RunInit ==
    /\ \E i \in 1..Len(Systems) :
          job = [ctx |-> PoolCtx, sys |-> Systems[i], panic |-> "unwind"]
    /\ \E seed \in 0..(RngMod - 1) : \E p \in LargeKProbs : \E mc \in MaxCyclesChoices :
          workers = [w \in Runs |->
                        NewWorker(PoolCtx, seed, RandomOptions(SmallK, LargeK, p, mc))]
    /\ split = IdleSplit
    /\ an = IdleAn
    /\ result = IdleResult
    /\ main_pc = "idle"
    /\ stdout = <<>>

\* the second call starts when the first has returned or panicked
RunTurn(w) == w = 1 \/ workers[1].pc \in {"returned", "panicked"}

RunNext ==
    \/ \E w \in Runs : RunTurn(w) /\ WorkerSetup(w)
    \/ \E w \in Runs : RunTurn(w) /\ EpisodeStart(w)
    \/ \E w \in Runs : RunTurn(w) /\ ClusterAttempt(w)
    \/ \E w \in Runs : RunTurn(w) /\ SearchCycle(w)
    \/ \E w \in Runs : RunTurn(w) /\ ReplayCycle(w)

RunSpec == RunInit /\ [][RunNext]_vars

ReturnedSat(wk) == wk.pc = "returned" /\ wk.res.kind = "Sat"

\* C1: the replay in record_witness reproduces the search episode: in every
\* cycle 0..=k it leaves the inputs with the values the search drew in that
\* cycle, it runs all k+1 cycles, and at cycle k some bad predicate is 1
\* (the debug assertion on the bad states never fails).
C1_ReplayReproduces ==
    \A w \in DOMAIN workers :
        LET wk == workers[w] IN
        /\ wk.failed # "bad assertion"
        /\ Len(wk.rw.redrawn) <= Len(wk.drawn)
        /\ \A i \in 1..Len(wk.rw.redrawn) : wk.rw.redrawn[i] = wk.drawn[i]
        /\ ReturnedSat(wk) =>
              /\ Len(wk.rw.redrawn) = wk.res.wit.k + 1
              /\ Len(wk.drawn) = wk.res.wit.k + 1

\* a witness was recorded at cycle 1 or later of an episode of a system with
\* a constraint cluster, after the generator had been used by earlier cycles
C1_Witness ==
    \E w \in DOMAIN workers :
        /\ ReturnedSat(workers[w])
        /\ workers[w].res.wit.k >= 1
        /\ workers[w].constraints # <<>>
        /\ workers[w].cycle_count >= 1

\* the words Witness::print reads for state i (main.rs:141-166): states with
\* an init are skipped without consuming words
PrintStateOffset(ctx, sys, i) ==
    Len(Concat([j \in 1..(i - 1) |->
                   IF sys.states[j].init # 0 THEN <<>>
                   ELSE Words(0, ctx[sys.states[j].symbol].w)]))

\* the position of input i's words within one cycle of input_data
InputOffset(ctx, sys, i) ==
    Len(Concat([j \in 1..(i - 1) |-> Words(0, ctx[sys.inputs[j]].w)]))

CycleWords(ctx, sys) == InputOffset(ctx, sys, Len(sys.inputs) + 1)

\* a fresh simulator started from the witness: states with an init take the
\* init value, the others the value read from state_init
FreshStart(ctx, sys, wit) ==
    LET sim == SimInit(ctx, sys)
    IN [e \in 1..Len(ctx) |->
          IF \E i \in 1..Len(sys.states) : sys.states[i].symbol = e /\ sys.states[i].init = 0
          THEN LET i == CHOOSE i \in 1..Len(sys.states) : sys.states[i].symbol = e
                   o == PrintStateOffset(ctx, sys, i)
               IN IF o + 1 <= Len(wit.state_init) THEN wit.state_init[o + 1] ELSE 0
          ELSE sim[e]]

\* the recorded inputs of cycle j applied to the simulator, then update
ApplyInputs(ctx, sys, wit, sim, j) ==
    SimUpdate(ctx,
        [e \in 1..Len(ctx) |->
            IF \E i \in 1..Len(sys.inputs) : sys.inputs[i] = e
            THEN LET i == CHOOSE i \in 1..Len(sys.inputs) : sys.inputs[i] = e
                     o == j * CycleWords(ctx, sys) + InputOffset(ctx, sys, i)
                 IN IF o + 1 <= Len(wit.input_data) THEN wit.input_data[o + 1] ELSE 0
            ELSE sim[e]])

RECURSIVE FreshReplay(_, _, _, _, _)
\* the simulator at cycle wit.k, after the inputs of that cycle
FreshReplay(ctx, sys, wit, sim, j) ==
    LET applied == ApplyInputs(ctx, sys, wit, sim, j)
    IN IF j = wit.k THEN applied
       ELSE FreshReplay(ctx, sys, wit, SimStep(sys, applied), j + 1)

\* C2: for every Sat witness, a fresh simulator of the system started from
\* state_init (states with a computed init taking their init value) and
\* driven by input_data cycle by cycle has every bad predicate of
\* failed_safety at 1 in cycle k.
C2_WitnessReplays ==
    \A w \in DOMAIN workers :
        LET wk == workers[w] IN
        ReturnedSat(wk) =>
            LET sim == FreshReplay(wk.ctx, job.sys, wk.res.wit,
                                   FreshStart(wk.ctx, job.sys, wk.res.wit), 0)
            IN \A i \in 1..Len(wk.res.wit.failed_safety) :
                   sim[wk.bad_states[wk.res.wit.failed_safety[i] + 1]] = 1

\* C8: two runs of random_testing on the same system, options and seed
\* return the same result: the same outcome and, when Sat, the same k,
\* failed_safety, state_init and input_data.
C8_Deterministic ==
    (workers[1].pc = "returned" /\ workers[2].pc = "returned") =>
        workers[1].res = workers[2].res

\* both runs returned a witness of a system with two constraint clusters
C8_Witness ==
    /\ ReturnedSat(workers[1])
    /\ ReturnedSat(workers[2])
    /\ Len(workers[1].constraints) = 2
    /\ Len(workers[2].constraints) = 2

----------------------------------------------------------------------------
(* Spec: the program. main spawns one thread per seed 0..num_threads-1,    *)
(* each runs random_testing and stores its result in the shared slot; main *)
(* polls the slot, prints the result it finds and exits the process.       *)
(* RANDOM_OPTS is followed with small_k = SmallK and large_k = LargeK.     *)

\* available_parallelism() when --single-thread is not given
NumThreads == 2

\* u64::div_ceil
DivCeil(c, n) == (c + n - 1) \div n

\* main.rs:63-64: RANDOM_OPTS with max_cycles divided among the threads
WorkerOptions(max_cycles, num_threads) ==
    RandomOptions(SmallK, LargeK, 0,
                  IF max_cycles.some THEN Some(DivCeil(max_cycles.v, num_threads)) ELSE None)

\* `Arc::new(RwLock::new(None))` (main.rs:58): the slot before any store
EmptySlot == [some |-> FALSE, v |-> NoResult]

\* main.rs:40-71: the command line is parsed, the system loaded, the
\* threads spawned
Init ==
    /\ \E i \in 1..Len(OrigSystems) : \E ps \in PanicStrategies :
       \E single_thread \in BOOLEAN : \E max_cycles \in MaxCyclesChoices :
          LET num_threads == IF single_thread THEN 1 ELSE NumThreads
          IN /\ job = [ctx |-> PoolCtx, orig_sys |-> OrigSystems[i],
                       sys |-> replace_anonymous_inputs_with_zero(PoolCtx, OrigSystems[i]),
                       panic |-> ps,
                       args |-> [single_thread |-> single_thread,
                                 max_cycles |-> max_cycles]]
             /\ workers = [w \in 1..num_threads |->
                              NewWorker(PoolCtx, w - 1, WorkerOptions(max_cycles, num_threads))]
    /\ result = EmptySlot
    /\ main_pc = "poll"
    /\ stdout = <<>>
    /\ split = IdleSplit
    /\ an = IdleAn

\* main.rs:67-69: random_testing returned, the thread takes the write lock
\* and stores its result
WorkerStore(w) ==
    /\ Running
    /\ workers[w].pc = "returned"
    /\ result' = Some(workers[w].res)
    /\ workers' = [workers EXCEPT ![w].pc = "stored"]
    /\ UNCHANGED <<split, an, job, main_pc, stdout>>

\* the printed form of a value: its words and its width determine the bit
\* string of ValueRef::to_bit_string
BitString(words, width) == <<"bits", words, width>>

\* main.rs:129-137: the line of the failed properties
PrintFailed(wit) == IF wit.failed_safety = <<>> THEN <<>> ELSE << <<"b", wit.failed_safety>> >>

\* main.rs:140-166: the starting state; states with an init are skipped
PrintStates(ctx, sys, wit) ==
    IF Len(sys.states) = 0 THEN <<>>
    ELSE << <<"#0">> >> \o
         Concat([i \in 1..Len(sys.states) |->
            IF sys.states[i].init # 0 THEN <<>>
            ELSE LET o == PrintStateOffset(ctx, sys, i)
                     n == Len(Words(0, ctx[sys.states[i].symbol].w))
                 IN << <<i - 1,
                         BitString(SubSeq(wit.state_init, o + 1, o + n),
                                   ctx[sys.states[i].symbol].w),
                         ctx[sys.states[i].symbol].a, "#0">> >>])

\* what a print wrote, the offset into input_data it reached and whether it
\* panicked
NoPrint == [lines |-> <<>>, offset |-> 0, panicked |-> FALSE]

\* the words the printer reads for an input: none for a removed input, which
\* is printed as zeros (main.rs:183-192)
PrintWords(ctx, input) ==
    IF is_removed(ctx, input) THEN 0 ELSE DivCeil(ctx[input].w, WordBits)

RECURSIVE PrintOffset(_, _, _)
\* `offset` before the n-th pass through the body of the inner loop
\* (main.rs:178-195), the passes counted from 1 over all cycles
PrintOffset(ctx, sys, n) ==
    IF n <= 1 THEN 0
    ELSE PrintOffset(ctx, sys, n - 1)
            + PrintWords(ctx, sys.inputs[((n - 2) % Len(sys.inputs)) + 1])

\* the n-th pass panics: the width of an array is unwrapped, or the slice
\* ends past input_data
PrintPanics(ctx, sys, wit, n) ==
    LET input == sys.inputs[((n - 1) % Len(sys.inputs)) + 1]
    IN \/ ctx[input].op = "arraysym"
       \/ PrintOffset(ctx, sys, n) + PrintWords(ctx, input) > Len(wit.input_data)

\* the passes the inner loop makes: all of them, or those up to the first
\* that panics
PrintPasses(ctx, sys, wit) ==
    LET all == (wit.k + 1) * Len(sys.inputs)
        bad == {n \in 1..all : PrintPanics(ctx, sys, wit, n)}
    IN [all |-> all, panicked |-> bad # {},
        done |-> IF bad = {} THEN all ELSE Min(bad) - 1]

\* main.rs:181-193: the line of input i in cycle k, pass n
PrintInput(ctx, sys, wit, k, i) ==
    LET input == sys.inputs[i]
        width == ctx[input].w
        offset == PrintOffset(ctx, sys, k * Len(sys.inputs) + i)
    IN <<i - 1,
         BitString(IF is_removed(ctx, input)
                   THEN [j \in 1..DivCeil(width, WordBits) |-> 0]
                   ELSE SubSeq(wit.input_data, offset + 1, offset + PrintWords(ctx, input)),
                   width),
         ctx[input].a, "@", k>>

\* main.rs:178-195: the lines of cycle k when the inner loop completes
\* `done` passes in all
PrintInputs(ctx, sys, wit, k, done) ==
    LET first == k * Len(sys.inputs) + 1
        upto == Min({Len(sys.inputs), done - first + 1})
    IN IF done + 1 < first THEN <<>>
       ELSE << <<"@", k>> >> \o [i \in 1..upto |-> PrintInput(ctx, sys, wit, k, i)]

\* Witness::print; the final `debug_assert_eq!(offset, self.input_data.len())`
\* panics before the closing line
WitnessPrint(ctx, sys, wit) ==
    LET passes == PrintPasses(ctx, sys, wit)
        offset == PrintOffset(ctx, sys, passes.done + 1)
        body == PrintFailed(wit) \o PrintStates(ctx, sys, wit)
                   \o Concat([j \in 1..(wit.k + 1) |->
                                 PrintInputs(ctx, sys, wit, j - 1, passes.done)])
    IN IF passes.panicked \/ offset # Len(wit.input_data)
       THEN [lines |-> body, offset |-> offset, panicked |-> TRUE]
       ELSE [lines |-> Append(body, <<".">>), offset |-> offset, panicked |-> FALSE]

\* what main prints for the result it read (main.rs:76-88); the witness is
\* printed against orig_ctx and orig_sys
PrintResult(ctx, sys, res) ==
    CASE res.kind = "Unknown" -> NoPrint
      [] res.kind = "UnSat" -> [NoPrint EXCEPT !.lines = << <<"unsat">> >>]
      [] res.kind = "Sat" ->
            LET pr == WitnessPrint(ctx, sys, res.wit)
            IN [pr EXCEPT !.lines = << <<"sat">> >> \o @]

\* mutant: an Unknown result is skipped and main keeps polling
MainPollSkipsUnknown ==
    /\ main_pc = "poll"
    /\ result.some
    /\ result.v.kind # "Unknown"
    /\ LET pr == PrintResult(job.ctx, job.orig_sys, result.v)
       IN /\ stdout' = stdout \o pr.lines
          /\ main_pc' = IF pr.panicked THEN "panicked" ELSE "exited"
    /\ UNCHANGED <<split, an, job, workers, result>>

\* main.rs:73-91: an iteration of the polling loop that finds the slot set
\* (an iteration that finds None changes nothing)
MainPoll ==
    /\ main_pc = "poll"
    /\ result.some
    /\ LET pr == PrintResult(job.ctx, job.orig_sys, result.v)
       IN /\ stdout' = stdout \o pr.lines
          /\ main_pc' = IF pr.panicked THEN "panicked" ELSE "exited"
    /\ UNCHANGED <<split, an, job, workers, result>>

Next ==
    \/ \E w \in DOMAIN workers : WorkerSetup(w)
    \/ \E w \in DOMAIN workers : EpisodeStart(w)
    \/ \E w \in DOMAIN workers : ClusterAttempt(w)
    \/ \E w \in DOMAIN workers : SearchCycle(w)
    \/ \E w \in DOMAIN workers : ReplayCycle(w)
    \/ \E w \in DOMAIN workers : WorkerStore(w)
    \/ MainPoll

Spec == Init /\ [][Next]_vars

\* C3: the shared result slot is write-once: once a worker has stored a
\* result in it, no later step changes it, so main prints the result of the
\* first worker that finished.
C3_SlotWriteOnce == [][result.some => result' = result]_vars

\* C4: when a worker meets an unsupported input while sampling (wider than
\* 64 bits, or an array), the process is terminated: main is not left
\* polling the slot.
C4_UnsupportedAborts ==
    (\E w \in DOMAIN workers : workers[w].failed = "todo") => main_pc # "poll"

\* C5: when the outcome is Unknown, the program has written nothing to
\* standard output when it exits.
C5_UnknownPrintsNothing ==
    (main_pc = "exited" /\ result.v.kind = "Unknown") => stdout = <<>>

----------------------------------------------------------------------------
(* The contents of a recorded witness.                                     *)

\* the words of the start values of the states without an init expression,
\* in system state order
FreeStateWords(ctx, sys, start_state) ==
    Concat([i \in 1..Len(sys.states) |->
               IF sys.states[i].init # 0 THEN <<>>
               ELSE Words(start_state[i], ctx[sys.states[i].symbol].w)])

\* C11: state_init of a recorded witness holds the words of exactly the
\* states that have no init expression, in system state order, so that
\* Witness::print, which skips states with an init without consuming words,
\* reads each free state's own value.
C11_StateInitFreeStates ==
    \A w \in DOMAIN workers :
        ReturnedSat(workers[w]) =>
            workers[w].res.wit.state_init =
                FreeStateWords(workers[w].ctx, job.sys, workers[w].start_state)

\* the words input_data is to hold for cycle j (0-based) of an episode whose
\* input values were drawn: zero words for an input that is not exposed
ExpectedCycleWords(ctx, sys, drawn, j) ==
    Concat([i \in 1..Len(sys.inputs) |->
               Words(IF Exposed(ctx, sys, sys.inputs[i]) THEN drawn[j + 1][i] ELSE 0,
                     ctx[sys.inputs[i]].w)])

\* C12: input_data of a recorded witness holds, for each cycle 0..=k in
\* order and within a cycle for each system input in iteration order, the
\* words of that input's value, an input the simulator does not expose
\* contributing zero words of its declared width; its length is (k+1) times
\* the word count of all inputs.  (The replay is never entered with an
\* unexposed input wider than a word: sampling it panics in the search.)
C12_InputDataLayout ==
    \A w \in DOMAIN workers :
        LET wk == workers[w] IN
        /\ wk.pc = "rw_inputs" => MissingWideInputs(wk.ctx, job.sys) = <<>>
        /\ ReturnedSat(wk) =>
              /\ wk.res.wit.input_data =
                    Concat([j \in 1..(wk.res.wit.k + 1) |->
                               ExpectedCycleWords(wk.ctx, job.sys, wk.drawn, j - 1)])
              /\ Len(wk.res.wit.input_data) = (wk.res.wit.k + 1) * CycleWords(wk.ctx, job.sys)

\* a witness of two or more cycles was recorded for a system with an input
\* that no expression of the system uses
C12_Witness ==
    \E w \in DOMAIN workers :
        /\ ReturnedSat(workers[w])
        /\ workers[w].res.wit.k >= 1
        /\ \E i \in 1..Len(job.sys.inputs) : ~Exposed(workers[w].ctx, job.sys, job.sys.inputs[i])

\* C13: a worker run with max_cycles = m, for any m >= 0, performs at most
\* m simulator steps in its search loop, counted across episodes, and
\* returns Unknown as soon as the count reaches m unless a bad state was
\* detected first; m is ceil(M / N) for the command line's M and N workers.
C13_CycleBudget ==
    \A w \in DOMAIN workers :
        LET wk == workers[w]
            m == wk.opts.max_cycles
        IN m.some =>
              /\ job.args.max_cycles.some
              /\ m.v = DivCeil(job.args.max_cycles.v, Len(workers))
              /\ wk.cycle_count <= m.v
              /\ wk.res.kind = "Unknown" => wk.cycle_count = m.v

\* the input values vals written to the inputs of the system, then update
DriveInputs(ctx, sys, sim, vals) ==
    SimUpdate(ctx, [e \in 1..Len(ctx) |->
                       IF \E i \in 1..Len(sys.inputs) : sys.inputs[i] = e
                       THEN vals[CHOOSE i \in 1..Len(sys.inputs) : sys.inputs[i] = e]
                       ELSE sim[e]])

RECURSIVE EpisodeSim(_, _, _, _, _, _)
\* the simulator in cycle upto of an episode that starts in sim at cycle j
\* and whose inputs are drawn[j + 1], drawn[j + 2], ...
EpisodeSim(ctx, sys, sim, drawn, j, upto) ==
    LET driven == DriveInputs(ctx, sys, sim, drawn[j + 1])
    IN IF j = upto THEN driven
       ELSE EpisodeSim(ctx, sys, SimStep(sys, driven), drawn, j + 1, upto)

\* the simulator in cycle j of the episode worker wk is in
EpisodeCycle(wk, sys, j) ==
    EpisodeSim(wk.ctx, sys, SimRestore(sys, SimInit(wk.ctx, sys), wk.start_state),
               wk.drawn, 0, j)

\* the 0-based indices of the bad predicates that are 1
BadsIn(bad_states, sim) == {i - 1 : i \in {j \in 1..Len(bad_states) : sim[bad_states[j]] = 1}}

\* C14: a Sat witness has a non-empty failed_safety that lists, ascending,
\* exactly the indices of the bad predicates that are 1 in cycle k of the
\* detecting episode, and k is the first cycle of that episode in which a
\* bad predicate holds.
C14_FailedSafetyExact ==
    \A w \in DOMAIN workers :
        LET wk == workers[w]
            wit == wk.res.wit
        IN ReturnedSat(wk) =>
              /\ wit.failed_safety # <<>>
              /\ \A i \in 1..(Len(wit.failed_safety) - 1) :
                    wit.failed_safety[i] < wit.failed_safety[i + 1]
              /\ wit.k = Len(wk.drawn) - 1
              /\ Range(wit.failed_safety) = BadsIn(job.sys.bad, EpisodeCycle(wk, job.sys, wit.k))
              /\ \A j \in 0..(wit.k - 1) : BadsIn(job.sys.bad, EpisodeCycle(wk, job.sys, j)) = {}

\* a witness with two failed bad predicates was found after the first cycle
\* of an episode
C14_Witness ==
    \E w \in DOMAIN workers :
        /\ ReturnedSat(workers[w])
        /\ workers[w].res.wit.k >= 1
        /\ Len(workers[w].res.wit.failed_safety) = 2

----------------------------------------------------------------------------
(* FairSpec: the program under fair scheduling, on the catalog systems     *)
(* whose searches are short.  A thread whose call has                      *)
(* returned gets to take the write lock and store, and main's polling loop *)
(* keeps being scheduled.                                                  *)

\* the catalog systems FairSpec runs: 3, 6, 10 and 11 (no constraint), 5 (two
\* clusters, two bad predicates), 7 and 8 (an unsupported input)
FairSystems == {3, 5, 6, 7, 8, 10, 11}

FairInit == Init /\ \E i \in FairSystems : job.orig_sys = OrigSystems[i]

FairSpec ==
    /\ FairInit
    /\ [][Next]_vars
    /\ WF_vars(\E w \in DOMAIN workers : WorkerStore(w))
    /\ WF_vars(MainPoll)

\* the lines of stdout that main printed: those no worker wrote
MainLines ==
    {i \in 1..Len(stdout) :
        ~(Len(stdout[i]) = 2 /\ stdout[i][1] \in {"Exciting after executing",
                                                   "TODO: deal with missing input"})}

ResultLines == {i \in MainLines : Len(stdout[i]) = 1 /\ stdout[i][1] \in {"sat", "unsat"}}

\* C15: if a worker returns a result then, under fair scheduling, main
\* eventually finds the slot populated, prints one result (nothing for
\* Unknown, "unsat" for UnSat, "sat" and the witness for Sat) and exits with
\* code 0; it never prints two results.
C15_CoordinatorLive ==
    /\ (\E w \in DOMAIN workers : workers[w].pc = "returned") ~> (main_pc = "exited")
    /\ [](Cardinality(ResultLines) <= 1)
    /\ [](main_pc = "exited" =>
            /\ result.some
            /\ result.v.kind = "Unknown" => MainLines = {}
            /\ result.v.kind = "Sat" => Cardinality(ResultLines) = 1 /\ Cardinality(MainLines) >= 4
            /\ result.v.kind = "UnSat" => Cardinality(ResultLines) = 1)
    /\ [](main_pc = "poll" => MainLines = {})

\* main exited after the second of two workers stored a witness
C15_Witness ==
    /\ main_pc = "exited"
    /\ Len(workers) = 2
    /\ workers[1].pc = "stored"
    /\ workers[2].pc = "stored"
    /\ result.v.kind = "Sat"

\* C16: after randomize_inputs has returned and the simulator is updated,
\* every expression of every cluster is 1: accepting a later cluster and
\* sampling the unconstrained inputs does not invalidate a cluster accepted
\* earlier in the cycle, in the search and in the replay (the constraint
\* debug assertion of record_witness never fails).
C16_ClustersHoldTogether ==
    \A w \in DOMAIN workers :
        LET wk == workers[w] IN
        /\ wk.failed # "constraint assertion"
        /\ \A j \in 1..Len(wk.drawn) :
              \A c \in 1..Len(wk.constraints) :
                  AllHold(EpisodeCycle(wk, job.sys, j - 1), wk.constraints[c].exprs)

\* two cycles were sampled for a system with two clusters, and a cycle of
\* the replay passed the assertion on the constraints
C16_Witness ==
    \E w \in DOMAIN workers :
        /\ Len(workers[w].constraints) = 2
        /\ Len(workers[w].drawn) >= 2
        /\ Len(workers[w].rw.redrawn) >= 1

\* the values a bit-vector input can be given
InputValuesOf(ctx, e) == 0..(Pow2(Min({ctx[e].w, RngBits})) - 1)

\* the assignments of values to the inputs of a cluster
ClusterAssignments(ctx, cluster) ==
    LET all == UNION {InputValuesOf(ctx, e) : e \in Range(cluster.inputs)}
    IN {vals \in [Range(cluster.inputs) -> all] :
           \A e \in Range(cluster.inputs) : vals[e] \in InputValuesOf(ctx, e)}

\* no values of the cluster's inputs make all its expressions 1 in the
\* simulator's current state
Unsatisfiable(ctx, sim, cluster) ==
    \A vals \in ClusterAssignments(ctx, cluster) :
        ~AllHold(SimUpdate(ctx, [e \in 1..Len(ctx) |->
                                    IF e \in Range(cluster.inputs) THEN vals[e]
                                    ELSE sim[e]]),
                 cluster.exprs)

\* a worker with locals wk is in the rejection loop of a cluster that cannot
\* be satisfied
RejectsForever(wk) ==
    /\ wk.pc \in {"inputs", "rw_inputs"}
    /\ wk.ci <= Len(wk.constraints)
    /\ \A e \in Range(wk.constraints[wk.ci].inputs) :
          wk.ctx[e].op = "sym" /\ wk.ctx[e].w <= WordBits
    /\ Unsatisfiable(wk.ctx, wk.sim, wk.constraints[wk.ci])

\* C17: the rejection loop has no retry bound and the cycle budget does not
\* cover it: a worker sampling a cluster whose expressions cannot all be 1
\* in the current state stays in that loop whatever it draws, its cycle
\* count stands still and it never returns a result, also when max_cycles
\* is set.
C17_RejectionUnbounded ==
    [][\A w \in DOMAIN workers :
          RejectsForever(workers[w]) =>
              /\ RejectsForever(workers'[w])
              /\ workers'[w].cycle_count = workers[w].cycle_count
              /\ workers'[w].res = NoResult]_vars

\* a worker with a cycle budget is in the rejection loop of a cluster that
\* became unsatisfiable when the state changed, after a first cycle
C17_Witness ==
    \E w \in DOMAIN workers :
        /\ RejectsForever(workers[w])
        /\ workers[w].opts.max_cycles.some
        /\ workers[w].cycle_count >= 1
        /\ workers[w].rng # workers[w].rng_start

\* C18: every k_max drawn is in [1, small_k] when the small branch is taken
\* and in [small_k, large_k] otherwise, an episode runs the cycles
\* 0..=k_max, and so every Sat witness has k <= k_max <= large_k (and
\* k <= small_k when large_k_prob is 0).
C18_EpisodeLength ==
    /\ \A rng \in 0..(RngMod - 1) : \A p \in LargeKProbs :
          LET opts == RandomOptions(SmallK, LargeK, p, None)
              km == sample_k_max(rng, opts).v
          IN IF gen_bool(rng, p).v THEN SmallK <= km /\ km <= LargeK
             ELSE 1 <= km /\ km <= SmallK
    /\ \A w \in DOMAIN workers :
          LET wk == workers[w] IN
          wk.pc \notin {"start", "episode"} =>
              /\ 1 <= wk.k_max /\ wk.k_max <= wk.opts.large_k
              /\ wk.opts.large_k_prob = 0 => wk.k_max <= wk.opts.small_k
              /\ wk.k <= wk.k_max
              /\ Len(wk.drawn) <= wk.k_max + 1
              /\ wk.rw.k <= wk.rw.k_bad /\ wk.rw.k_bad <= wk.k_max
              /\ ReturnedSat(wk) => wk.res.wit.k <= wk.k_max

\* a witness was returned from the last cycle of an episode of the large
\* branch that is longer than small_k
C18_Witness ==
    \E w \in DOMAIN workers :
        /\ ReturnedSat(workers[w])
        /\ workers[w].k_max > SmallK
        /\ workers[w].res.wit.k = workers[w].k_max

\* the symbols an expression mentions
SymbolsOf(ctx, e) == {x \in Cone(ctx, e) : IsSymbol(ctx[x])}

\* the states without an init that e mentions, and the inputs it mentions
FreeStatesOf(ctx, sys, e) ==
    {x \in SymbolsOf(ctx, e) : x \in state_map(sys) /\ StateOf(sys, x).init = 0}

InputsOf(ctx, sys, e) == SymbolsOf(ctx, e) \cap Range(sys.inputs)

Occurrences(seq, x) == Cardinality({i \in 1..Len(seq) : seq[i] = x})

RECURSIVE SumOccurrences(_, _)
\* the number of positions of the clusters' inputs lists that hold x
SumOccurrences(clusters, x) ==
    IF clusters = <<>> THEN 0
    ELSE Occurrences(clusters[1].inputs, x) + SumOccurrences(Tail(clusters), x)

\* C20: every input of the system is in the inputs of exactly one cluster
\* or in unconstrained_inputs, never in both and never twice, so each
\* accepted cycle samples every input, and no unconstrained input is in a
\* cluster.
C20_InputPartition ==
    \A w \in DOMAIN workers :
        LET wk == workers[w] IN
        wk.pc # "start" =>
            /\ \A i \in 1..Len(job.sys.inputs) :
                  SumOccurrences(wk.constraints, job.sys.inputs[i])
                     + Occurrences(wk.unconstrained_inputs, job.sys.inputs[i]) = 1
            /\ \A c \in 1..Len(wk.constraints) :
                  Range(wk.constraints[c].inputs) \subseteq Range(job.sys.inputs)
            /\ Range(wk.unconstrained_inputs) \subseteq Range(job.sys.inputs)

\* a worker of a system with two clusters and an unconstrained input has
\* sampled a cycle
C20_Witness ==
    \E w \in DOMAIN workers :
        /\ Len(workers[w].constraints) = 2
        /\ workers[w].unconstrained_inputs # <<>>
        /\ workers[w].drawn # <<>>


----------------------------------------------------------------------------
(* The values randomize_symbol writes.                                     *)

RECURSIVE FitsWidth(_, _)
\* v < 2^w, by the bits of v
FitsWidth(v, w) ==
    IF v = 0 THEN TRUE
    ELSE IF w = 0 THEN FALSE
    ELSE FitsWidth(v \div 2, w - 1)

\* the bit-vector symbols of at most a word
NarrowSymbols(ctx) == {e \in 1..Len(ctx) : ctx[e].op = "sym" /\ ctx[e].w \in 1..WordBits}

\* C21: every value randomize_symbol writes for a bit-vector symbol of
\* width w, 1 <= w <= 64, is below 2^w, also for w = 64 where the mask is
\* all ones: for every generator state and symbol of the pool, and for
\* every input of a running search.
C21_SampledWithinWidth ==
    /\ \A rng \in 0..(RngMod - 1) : \A e \in NarrowSymbols(PoolCtx) :
          LET st == randomize_symbol(PoolCtx,
                        [rng |-> rng, sim |-> [x \in 1..Len(PoolCtx) |-> 0], panic |-> FALSE], e)
          IN /\ ~st.panic
             /\ FitsWidth(st.sim[e], PoolCtx[e].w)
    /\ \A w \in DOMAIN workers :
          workers[w].pc # "start" =>
             \A i \in 1..Len(job.sys.inputs) :
                job.sys.inputs[i] \in NarrowSymbols(workers[w].ctx) =>
                   FitsWidth(workers[w].sim[job.sys.inputs[i]],
                             workers[w].ctx[job.sys.inputs[i]].w)

\* a search drew the largest value of the 2-bit input x and, for the 64-bit
\* input y, a value that takes more than x's two bits
C21_Witness ==
    \E w \in DOMAIN workers :
        /\ workers[w].pc # "start"
        /\ workers[w].drawn # <<>>
        /\ job.sys.inputs = <<28, 6>>
        /\ workers[w].sim[6] = 3
        /\ workers[w].sim[28] > 3


----------------------------------------------------------------------------
(* Witness::print against record_witness: PrintSpec is main run on the     *)
(* systems with anonymous inputs (15, 16, 17) and on 3, 5, 10 and 14,      *)
(* which have none.                                                        *)

PrintSystems == {3, 5, 10, 14, 15, 16, 17}

PrintInit == Init /\ \E i \in PrintSystems : job.orig_sys = OrigSystems[i]

PrintSpec == PrintInit /\ [][Next]_vars

\* the position of symbol e among the inputs of sys
InputIndex(sys, e) == CHOOSE i \in 1..Len(sys.inputs) : sys.inputs[i] = e

\* the words record_witness kept for input e in cycle k (0-based) of the
\* episode of worker wk: those of the value drawn, zero for an input the
\* simulator does not expose
RecordedWords(wk, e, k) ==
    Words(IF Exposed(wk.ctx, job.sys, e) THEN wk.drawn[k + 1][InputIndex(job.sys, e)] ELSE 0,
          wk.ctx[e].w)

\* the line of input i of the parsed system in cycle k: zeros for an
\* anonymous input, the recorded value for the others
ExpectedInputLine(wk, i, k) ==
    LET e == job.orig_sys.inputs[i]
        width == job.ctx[e].w
    IN <<i - 1,
         BitString(IF job.ctx[e].a \in AnonymousNames
                   THEN [j \in 1..DivCeil(width, WordBits) |-> 0]
                   ELSE RecordedWords(wk, e, k), width),
         job.ctx[e].a, "@", k>>

\* the input lines main printed
PrintedInputLines == {stdout[n] : n \in {m \in 1..Len(stdout) : Len(stdout[m]) = 5}}

\* C22: Witness::print applied to a witness produced by record_witness reads
\* exactly Len(input_data) words over the cycles 0..=k, skipping the
\* anonymous inputs, so the final assertion on the offset holds, and every
\* input line it prints holds that input's own recorded value.
C22_PrintConsumesExactly ==
    (main_pc \in {"exited", "panicked"} /\ result.v.kind = "Sat") =>
        LET wit == result.v.wit
            pr == WitnessPrint(job.ctx, job.orig_sys, wit)
        IN /\ main_pc = "exited"
           /\ ~pr.panicked
           /\ pr.offset = Len(wit.input_data)
           /\ stdout[Len(stdout)] = <<".">>
           /\ \E w \in DOMAIN workers :
                 /\ workers[w].pc = "stored"
                 /\ workers[w].res = result.v
                 /\ PrintedInputLines =
                       {ExpectedInputLine(workers[w], i, k) :
                           i \in 1..Len(job.orig_sys.inputs), k \in 0..wit.k}

\* main printed a witness of two or more cycles for the system with the
\* inputs x, an anonymous 65-bit input and the unused b
C22_Witness ==
    /\ main_pc = "exited"
    /\ result.v.kind = "Sat"
    /\ result.v.wit.k >= 1
    /\ job.orig_sys.inputs = <<6, 32, 2>>
    /\ Len(job.sys.inputs) = 2
    /\ Len(result.v.wit.input_data) = 2 * (result.v.wit.k + 1)

=============================================================================
